---- MODULE Spec2Model ----
(***************************************************************************)
(* A model of CSet (cset.c / cset.h): a set stored as an ordered array     *)
(* behind a void* interface, with the client callbacks of set_test.c.      *)
(*                                                                         *)
(* A CSet* is an address of the heap (NULL is 0).  A set's elements array  *)
(* is modelled by its live prefix, the slots 0 .. n_elements-1: no         *)
(* function of cset.c compares, prints or cleans a slot at or above        *)
(* n_elements.  An element is an integer: the int itself in a set of ints, *)
(* the char* (a string resource) in a set of strings, the CSet* in a set   *)
(* of sets.                                                                *)
(***************************************************************************)
EXTENDS Integers, Sequences, FiniteSets, TLC

VARIABLES
    heap,       \* Addr -> struct CSetImplementation
    alloc,      \* Addr -> "unalloc" | "live" | "freed": malloc / free of the set record
    owned,      \* the string resources the client still holds and has given to no set
    cleaned,    \* string resource -> number of cleanup_str (free) calls on it
    call,       \* the last library call: its name and arguments
    ret,        \* the value the last call returned
    result,     \* the client's variable for the set an operation returned
    fault,      \* "none", or how the process died
    log         \* the cleanup_str calls and the frees of set records the last call made, in order

vars == <<heap, alloc, owned, cleaned, call, ret, result, fault, log>>

-----------------------------------------------------------------------------
(* Bounds of the model *)

\* ints and string resources handed to the library are 0 .. MaxVal
MaxVal == 3
\* the client stops adding to a set that holds MaxLen elements
MaxLen == 7
\* capacity hints passed to cset_create are 0 .. MaxHint
MaxHint == 2

(* Program constants *)

DEFAULT_CAPACITY == 32
RESIZE_FACTOR == 2
SET_STR_MAX_LEN == 2000
NULL == 0

\* bsearch's NULL result, as a slot index
NotFound == -1

-----------------------------------------------------------------------------
(* The heap *)

MaxAddr == 66
Addr == 1 .. MaxAddr
Values == 0 .. MaxVal

NoSet == [elements |-> <<>>, n_elements |-> 0, elemsz |-> 0, capacity |-> 0,
          cmp_fn |-> "NULL", cleanup_fn |-> "NULL", toString_fn |-> "NULL"]

Live(al, set) == set \in Addr /\ al[set] = "live"

\* malloc(sizeof(CSet)): the lowest address never handed out (addresses are not reused)
malloc(al) == IF \E a \in Addr : al[a] = "unalloc"
              THEN CHOOSE a \in Addr : al[a] = "unalloc" /\ \A b \in Addr : al[b] = "unalloc" => a <= b
              ELSE NULL

-----------------------------------------------------------------------------
(* Client callbacks (set_test.c) *)

compare_ints(num1, num2) == num1 - num2

\* the characters behind a char*: two resources hold each string
StrOf(str) == str \div 2

\* strcmp on the strings behind the two pointers
compare_strs(str1, str2) == StrOf(str1) - StrOf(str2)

sizeof_int == 4
sizeof_ptr == 8

\* the argument lists the client passes to cset_create (all but the capacity hint)
IntType == [elemsz |-> sizeof_int, cmp_fn |-> "compare_ints", cleanup_fn |-> "NULL", toString_fn |-> "print_int"]
StrType == [elemsz |-> sizeof_ptr, cmp_fn |-> "compare_strs", cleanup_fn |-> "cleanup_str", toString_fn |-> "print_str"]
ClientTypes == {IntType, StrType}

-----------------------------------------------------------------------------
(* Private helpers of cset.c *)

nth(set, n) == set.elements[n + 1]

RECURSIVE cset_compare(_, _, _)
RECURSIVE CallCmp(_, _, _, _)
RECURSIVE compare_elems(_, _, _, _)

\* set->cmp_fn(addr1, addr2)
CallCmp(h, fn, e1, e2) ==
    CASE fn = "compare_ints" -> compare_ints(e1, e2)
      [] fn = "compare_strs" -> compare_strs(e1, e2)
      [] fn = "cset_compare" -> cset_compare(h, e1, e2)

\* the element loop of cset_compare, from index i
compare_elems(h, set1, set2, i) ==
    IF i >= h[set1].n_elements THEN 0
    ELSE LET cmp_result == CallCmp(h, h[set1].cmp_fn, nth(h[set1], i), nth(h[set2], i))
         IN IF cmp_result # 0 THEN cmp_result
            ELSE compare_elems(h, set1, set2, i + 1)

\* cset_compare that stops after the counts and the element sizes
cset_compare_sizes_only(h, set1, set2) ==
    IF set1 = set2 THEN 0
    ELSE IF h[set1].n_elements # h[set2].n_elements
         THEN h[set1].n_elements - h[set2].n_elements
    ELSE h[set1].elemsz - h[set2].elemsz

cset_compare(h, set1, set2) ==
    IF set1 = set2 THEN 0
    ELSE IF h[set1].n_elements # h[set2].n_elements
         THEN h[set1].n_elements - h[set2].n_elements
    ELSE IF h[set1].elemsz # h[set2].elemsz
         THEN h[set1].elemsz - h[set2].elemsz
    ELSE compare_elems(h, set1, set2, 0)

\* check_resize that grows only once the count is above capacity - 1
check_resize_late(set) ==
    IF set.n_elements > set.capacity - 1
    THEN [set EXCEPT !.capacity = set.capacity * RESIZE_FACTOR]
    ELSE set

\* check_resize that waits until the array is full
check_resize_when_full(set) ==
    IF set.n_elements >= set.capacity
    THEN [set EXCEPT !.capacity = set.capacity * RESIZE_FACTOR]
    ELSE set

check_resize(set) ==
    IF set.n_elements >= set.capacity - 1
    THEN [set EXCEPT !.capacity = set.capacity * RESIZE_FACTOR]
    ELSE set

\* insert with the memcpy before the memmove: the element at index is overwritten and
\* then the new one is moved up with the rest
insert_copy_first(set, elem, index) ==
    [set EXCEPT !.elements = IF set.n_elements - index > 0
                             THEN SubSeq(set.elements, 1, index) \o <<elem, elem>>
                                    \o SubSeq(set.elements, index + 2, set.n_elements)
                             ELSE SubSeq(set.elements, 1, index) \o <<elem>>]

\* the slots of the elements array that insert reads or writes: memmove reads the
\* elems_left slots from index and writes them one slot up, memcpy writes slot index
insert_slots(set, index) ==
    LET elems_left == set.n_elements - index
    IN {index} \cup (IF elems_left > 0 THEN index .. index + elems_left ELSE {})

\* memmove of the elems_left slots from index up by one, then memcpy of elem into slot index
insert(set, elem, index) ==
    [set EXCEPT !.elements = SubSeq(set.elements, 1, index) \o <<elem>>
                               \o SubSeq(set.elements, index + 1, set.n_elements)]

RECURSIVE bsearch_range(_, _, _, _, _, _)
\* bsearch on the slots lo .. hi-1: probe the middle slot, return it when it compares
\* equal to the key, else go on in the slots below or above it.  C libraries differ in
\* which of the two middle slots of an even range they probe, so both are taken.
bsearch_range(h, key, base, lo, hi, cmp) ==
    IF lo >= hi THEN {NotFound}
    ELSE UNION {LET c == CallCmp(h, cmp, key, base[mid + 1])
                IN IF c = 0 THEN {mid}
                   ELSE IF c < 0 THEN bsearch_range(h, key, base, lo, mid, cmp)
                   ELSE bsearch_range(h, key, base, mid + 1, hi, cmp)
                : mid \in {lo + ((hi - lo) \div 2), lo + ((hi - lo - 1) \div 2)}}

\* bsearch of the C library: the slot indices the call may return, NotFound for NULL.
\* On an array that is ordered by cmp and holds no two equal elements this is one
\* result; on an array that is not, the C standard leaves the result open (several
\* equal slots) or undefined (array not ordered), and the results of every binary
\* search are taken.
bsearch(h, key, base, nmemb, cmp) == bsearch_range(h, key, base, 0, nmemb, cmp)

-----------------------------------------------------------------------------
(* cset_create *)

cset_create(elemsz, capacity_hint, cmp_fn, cleanup_fn, toString_fn) ==
    LET capacity == IF capacity_hint = 0 THEN DEFAULT_CAPACITY ELSE capacity_hint
    IN [elements |-> <<>>, n_elements |-> 0, elemsz |-> elemsz, capacity |-> capacity,
        cmp_fn |-> cmp_fn, cleanup_fn |-> cleanup_fn, toString_fn |-> toString_fn]

-----------------------------------------------------------------------------
(* cset_add *)

RECURSIVE add_search(_, _, _, _, _)
\* the binary-search loop: the index it stops at, or NotFound when a probe compared equal
add_search(h, set, elem, partial_sz, index) ==
    IF partial_sz > 1
    THEN LET cmp_result == CallCmp(h, set.cmp_fn, elem, nth(set, index))
             half == partial_sz \div 2
         IN IF cmp_result = 0 THEN NotFound
            ELSE IF cmp_result > 0
                 THEN add_search(h, set, elem, half, index + (half \div 2))
                 ELSE add_search(h, set, elem, half, index - (half \div 2))
    ELSE index

RECURSIVE add_scan(_, _, _, _)
\* the linear search that follows
add_scan(h, set, elem, index) ==
    IF index < set.n_elements /\ CallCmp(h, set.cmp_fn, elem, nth(set, index)) > 0
    THEN add_scan(h, set, elem, index + 1)
    ELSE index

\* the index cset_add inserts elem at, or NotFound when it returns false
add_index(h, set, elem) ==
    LET found == add_search(h, set, elem, set.n_elements, set.n_elements \div 2)
    IN IF found = NotFound THEN NotFound
       ELSE add_scan(h, set, elem, IF found = 1 THEN 0 ELSE found)

\* cset_add(set, elem) on heap h: the heap after the call and the value returned
cset_add(h, set, elem) ==
    LET index == add_index(h, h[set], elem)
    IN IF index = NotFound
       THEN [heap |-> h, ret |-> FALSE]
       ELSE LET resized == check_resize(h[set])
                inserted == insert(resized, elem, index)
            IN [heap |-> [h EXCEPT ![set] = [inserted EXCEPT !.n_elements = inserted.n_elements + 1]],
                ret |-> TRUE]

-----------------------------------------------------------------------------
(* cset_delete, cset_clear, cset_contains, cset_remove *)

\* The memory a library call works on: m = [heap, alloc, cleaned, fault, log]

\* an entry of the log: the function called and the pointer passed to it
Event(fn, ptr) == [fn |-> fn, ptr |-> ptr]

RECURSIVE cleanup_elems(_, _, _, _)
RECURSIVE cset_delete(_, _)

cleanup_str(m, str) == [m EXCEPT !.cleaned[str] = @ + 1, !.log = Append(@, Event("cleanup_str", str))]

cset_cleanup(m, set) == cset_delete(m, set)

\* set->cleanup_fn(addr) on the element elem
CallCleanup(m, fn, elem) ==
    CASE fn = "cleanup_str" -> cleanup_str(m, elem)
      [] fn = "cset_cleanup" -> cset_cleanup(m, elem)
      [] OTHER -> m

\* if(cleanup_fn != NULL) for(i = 0; i < n_elements; i++) cleanup_fn(nth(set, i)),
\* on the set record `set`, from index i
cleanup_elems(m, set, i, n) ==
    IF set.cleanup_fn = "NULL" \/ i >= n \/ m.fault # "none" THEN m
    ELSE cleanup_elems(CallCleanup(m, set.cleanup_fn, nth(set, i)), set, i + 1, n)

\* cset_delete(set).  A NULL set is dereferenced (segmentation fault); a set that was
\* freed before is read after its free.
cset_delete(m, set) ==
    IF m.fault # "none" THEN m
    ELSE IF set = NULL THEN [m EXCEPT !.fault = "null_dereference"]
    ELSE IF m.alloc[set] # "live" THEN [m EXCEPT !.fault = "use_after_free"]
    ELSE LET after == cleanup_elems(m, m.heap[set], 0, m.heap[set].n_elements)
         IN IF after.fault # "none" THEN after
            ELSE [after EXCEPT !.alloc[set] = "freed", !.heap[set] = NoSet,
                               !.log = Append(@, Event("free", set))]

\* cset_clear with a cleanup loop that starts at index 1
cset_clear_from_1(m, set) ==
    LET after == cleanup_elems(m, m.heap[set], 1, m.heap[set].n_elements)
    IN [after EXCEPT !.heap[set].elements = <<>>, !.heap[set].n_elements = 0]

cset_clear(m, set) ==
    LET after == cleanup_elems(m, m.heap[set], 0, m.heap[set].n_elements)
    IN [after EXCEPT !.heap[set].elements = <<>>, !.heap[set].n_elements = 0]

\* the results cset_contains(set, elem) may give
cset_contains(h, set, elem) ==
    {found # NotFound : found \in bsearch(h, elem, h[set].elements, h[set].n_elements, h[set].cmp_fn)}

\* cset_remove with a memmove of one slot too few: the last element is lost
remove_at_short(set, index) ==
    [set EXCEPT !.elements = SubSeq(set.elements, 1, index)
                               \o SubSeq(set.elements, index + 2, set.n_elements - 1)
                               \o (IF index + 1 < set.n_elements
                                   THEN <<set.elements[set.n_elements - 1]>> ELSE <<>>),
                !.n_elements = set.n_elements - 1]

\* the slots the memmove of cset_remove reads or writes: bytes_left is the size of
\* n_elements - index slots, read from slot index + 1 and written from slot index
remove_slots(set, index) ==
    LET slots_left == set.n_elements - index
    IN IF slots_left > 0 THEN index .. index + slots_left ELSE {}

\* the set after cset_remove found elem in slot index: memmove of the following slots
\* down by one and the decrement of the count
remove_at(set, index) ==
    [set EXCEPT !.elements = SubSeq(set.elements, 1, index)
                               \o SubSeq(set.elements, index + 2, set.n_elements),
                !.n_elements = set.n_elements - 1]

\* cset_remove without the test for a NULL result of bsearch: the slot before the
\* array is taken as found
cset_remove_unchecked(h, set, elem) ==
    {[heap |-> [h EXCEPT ![set] = remove_at(h[set], IF found = NotFound THEN 0 ELSE found)],
      ret |-> TRUE]
     : found \in bsearch(h, elem, h[set].elements, h[set].n_elements, h[set].cmp_fn)}

\* cset_remove(set, elem): every outcome [heap, ret] the call may have
cset_remove(h, set, elem) ==
    {IF found = NotFound
     THEN [heap |-> h, ret |-> FALSE]
     ELSE [heap |-> [h EXCEPT ![set] = remove_at(h[set], found)], ret |-> TRUE]
     : found \in bsearch(h, elem, h[set].elements, h[set].n_elements, h[set].cmp_fn)}

cset_size(set) == set.n_elements
cset_cardinality(set) == cset_size(set)
cset_isEmpty(set) == set.n_elements = 0

\* Iterators.  A pointer into the elements array is the index of its slot
\* (get_index), NULL is NotFound.

cset_first(set) == IF cset_isEmpty(set) THEN NotFound ELSE 0

\* cset_next that tests the index against the count
cset_next_to_count(set, prev) ==
    IF prev = set.n_elements THEN NotFound ELSE prev + 1

cset_next(set, prev) ==
    IF prev = set.n_elements - 1 THEN NotFound ELSE prev + 1

-----------------------------------------------------------------------------
(* The client of one set: create, add, remove, clear, contains *)

NoCall == [fn |-> "none", set1 |-> NULL, set2 |-> NULL, elem |-> 0]
Called(fn, set1, set2, elem) == [fn |-> fn, set1 |-> set1, set2 |-> set2, elem |-> elem]

Machine == [heap |-> heap, alloc |-> alloc, cleaned |-> cleaned, fault |-> fault, log |-> <<>>]

\* the call left the memory as m
Becomes(m) ==
    /\ heap' = m.heap
    /\ alloc' = m.alloc
    /\ cleaned' = m.cleaned
    /\ fault' = m.fault
    /\ log' = m.log

Init ==
    /\ heap = [a \in Addr |-> NoSet]
    /\ alloc = [a \in Addr |-> "unalloc"]
    /\ owned = Values
    /\ cleaned = [r \in Values |-> 0]
    /\ call = NoCall
    /\ ret = NULL
    /\ result = NULL
    /\ fault = "none"
    /\ log = <<>>

\* the values the client may pass to cset_add on this set: any int, or the address of
\* a string it still owns
Addable(set) == IF heap[set].cmp_fn = "compare_strs" THEN owned ELSE Values

\* set = cset_create(...)
Create(type, capacity_hint) ==
    /\ fault = "none"
    /\ malloc(alloc) # NULL
    /\ LET set == malloc(alloc)
       IN /\ heap' = [heap EXCEPT ![set] = cset_create(type.elemsz, capacity_hint, type.cmp_fn,
                                                        type.cleanup_fn, type.toString_fn)]
          /\ alloc' = [alloc EXCEPT ![set] = "live"]
          /\ call' = Called("cset_create", NULL, NULL, capacity_hint)
          /\ ret' = set
    /\ log' = <<>>
    /\ UNCHANGED <<owned, cleaned, fault>>

\* cset_add(set, &elem)
Add(set, elem) ==
    /\ fault = "none"
    /\ Live(alloc, set)
    /\ elem \in Addable(set)
    /\ LET r == cset_add(heap, set, elem)
       IN /\ heap' = r.heap
          /\ ret' = r.ret
          /\ owned' = IF r.ret /\ heap[set].cmp_fn = "compare_strs" THEN owned \ {elem} ELSE owned
    /\ call' = Called("cset_add", set, NULL, elem)
    /\ log' = <<>>
    /\ UNCHANGED <<alloc, cleaned, fault>>

\* cset_remove(set, &elem)
Remove(set, elem) ==
    /\ fault = "none"
    /\ Live(alloc, set)
    /\ elem \in Values
    /\ \E r \in cset_remove(heap, set, elem) :
          /\ heap' = r.heap
          /\ ret' = r.ret
    /\ call' = Called("cset_remove", set, NULL, elem)
    /\ log' = <<>>
    /\ UNCHANGED <<alloc, owned, cleaned, fault>>

\* cset_clear(set)
Clear(set) ==
    /\ fault = "none"
    /\ Live(alloc, set)
    /\ Becomes(cset_clear(Machine, set))
    /\ call' = Called("cset_clear", set, NULL, 0)
    /\ ret' = NULL
    /\ UNCHANGED owned

\* cset_contains(set, &elem)
Contains(set, elem) ==
    /\ fault = "none"
    /\ Live(alloc, set)
    /\ elem \in Values
    /\ ret' \in cset_contains(heap, set, elem)
    /\ call' = Called("cset_contains", set, NULL, elem)
    /\ log' = <<>>
    /\ UNCHANGED <<heap, alloc, owned, cleaned, fault>>

\* p = cset_first(set)
First(set) ==
    /\ fault = "none"
    /\ Live(alloc, set)
    /\ ret' = cset_first(heap[set])
    /\ call' = Called("cset_first", set, NULL, NotFound)
    /\ log' = <<>>
    /\ UNCHANGED <<heap, alloc, owned, cleaned, fault>>

Iterating == call.fn \in {"cset_first", "cset_next"}

\* p = cset_next(set, p), in a loop that began with cset_first(set) and ends when p
\* is NULL; the set is not changed in the loop
NextOf(set) ==
    /\ fault = "none"
    /\ Live(alloc, set)
    /\ Iterating
    /\ call.set1 = set
    /\ ret # NotFound
    /\ ret' = cset_next(heap[set], ret)
    /\ call' = Called("cset_next", set, NULL, ret)
    /\ log' = <<>>
    /\ UNCHANGED <<heap, alloc, owned, cleaned, fault>>

\* the client creates one set and works on it
CreateOne == \E type \in ClientTypes, capacity_hint \in 0 .. MaxHint :
                 /\ \A a \in Addr : alloc[a] = "unalloc"
                 /\ Create(type, capacity_hint)
                 /\ UNCHANGED result
AddOne == \E set \in Addr, elem \in Values :
                 /\ heap[set].n_elements < MaxLen
                 /\ Add(set, elem)
                 /\ UNCHANGED result
RemoveOne == \E set \in Addr, elem \in Values : Remove(set, elem) /\ UNCHANGED result
ClearOne == \E set \in Addr : Clear(set) /\ UNCHANGED result
ContainsOne == \E set \in Addr, elem \in Values : Contains(set, elem) /\ UNCHANGED result
FirstOne == \E set \in Addr : First(set) /\ UNCHANGED result
NextOne == \E set \in Addr : NextOf(set) /\ UNCHANGED result

Next == CreateOne \/ AddOne \/ RemoveOne \/ ClearOne \/ ContainsOne \/ FirstOne \/ NextOne

Spec == Init /\ [][Next]_vars

-----------------------------------------------------------------------------
(* Set operations: every outcome [m, ret] a call may have on the memory m *)

\* malloc of a set record and its elements array, filled in by cset_create
new_set(m, set, record) == [m EXCEPT !.heap[set] = record, !.alloc[set] = "live"]

\* the number of set records malloc can still hand out
FreeAddrs(al) == Cardinality({a \in Addr : al[a] = "unalloc"})

RECURSIVE add_all(_, _, _, _)
\* for(i ...; i < src.n_elements; i++) cset_add(dst, nth(src, i)), from index i
add_all(h, dst, src, i) ==
    IF i >= src.n_elements THEN h
    ELSE add_all(cset_add(h, dst, nth(src, i)).heap, dst, src, i + 1)

RECURSIVE subset_loop(_, _, _, _)
\* the results the loop of cset_isSubsetOf may give, from index i
subset_loop(h, set1, set2, i) ==
    IF i >= h[set1].n_elements THEN {TRUE}
    ELSE UNION {IF c THEN subset_loop(h, set1, set2, i + 1) ELSE {FALSE}
                : c \in cset_contains(h, set2, nth(h[set1], i))}

cset_isSubsetOf(h, set1, set2) ==
    IF set1 = set2 THEN {TRUE} ELSE subset_loop(h, set1, set2, 0)

\* the set the algebra operations create: set1's element size, capacity and functions
like_set1(m, set1) ==
    cset_create(m.heap[set1].elemsz, m.heap[set1].capacity, m.heap[set1].cmp_fn,
                m.heap[set1].cleanup_fn, m.heap[set1].toString_fn)

\* assert(set1->elemsz == set2->elemsz) failed: abort
AssertFailed(m) == {[m |-> [m EXCEPT !.fault = "assert_failed"], ret |-> NULL]}

\* cset_union that adds set2's elements to set1 and returns set1
cset_union_into_set1(m, set1, set2) ==
    IF set1 = NULL \/ set2 = NULL THEN {[m |-> m, ret |-> NULL]}
    ELSE IF m.heap[set1].elemsz # m.heap[set2].elemsz THEN AssertFailed(m)
    ELSE {[m |-> [m EXCEPT !.heap = add_all(m.heap, set1, m.heap[set2], 0)], ret |-> set1]}

cset_union(m, set1, set2) ==
    IF set1 = NULL \/ set2 = NULL THEN {[m |-> m, ret |-> NULL]}
    ELSE IF m.heap[set1].elemsz # m.heap[set2].elemsz THEN AssertFailed(m)
    ELSE LET u == malloc(m.alloc)
             created == new_set(m, u, like_set1(m, set1))
             with1 == add_all(created.heap, u, m.heap[set1], 0)
             with2 == add_all(with1, u, m.heap[set2], 0)
         IN {[m |-> [created EXCEPT !.heap = with2], ret |-> u]}

RECURSIVE intersect_loop(_, _, _, _, _, _)
\* for(i ...; i < smaller_sz; i++) if(cset_contains(set2, ith)) cset_add(intersect, ith):
\* the heaps the loop may leave, from index i
intersect_loop(h, intersect, set1, set2, i, smaller_sz) ==
    IF i >= smaller_sz THEN {h}
    ELSE LET ith == nth(h[set1], i)
         IN UNION {intersect_loop(IF c THEN cset_add(h, intersect, ith).heap ELSE h,
                                  intersect, set1, set2, i + 1, smaller_sz)
                   : c \in cset_contains(h, set2, ith)}

cset_intersect(m, set1, set2) ==
    IF set1 = NULL \/ set2 = NULL THEN {[m |-> m, ret |-> NULL]}
    ELSE IF m.heap[set1].elemsz # m.heap[set2].elemsz THEN AssertFailed(m)
    ELSE LET intersect == malloc(m.alloc)
             created == new_set(m, intersect, like_set1(m, set1))
             smaller_sz == IF m.heap[set1].n_elements < m.heap[set2].n_elements
                           THEN m.heap[set1].n_elements ELSE m.heap[set2].n_elements
         IN {[m |-> [created EXCEPT !.heap = h], ret |-> intersect]
             : h \in intersect_loop(created.heap, intersect, set1, set2, 0, smaller_sz)}

RECURSIVE difference_loop(_, _, _, _, _)
\* for(i ...; i < set1.n_elements; i++) if(!cset_contains(set2, nth(set1, i))) cset_add(diff, ...)
difference_loop(h, diff, set1, set2, i) ==
    IF i >= h[set1].n_elements THEN {h}
    ELSE LET ith == nth(h[set1], i)
         IN UNION {difference_loop(IF ~c THEN cset_add(h, diff, ith).heap ELSE h,
                                   diff, set1, set2, i + 1)
                   : c \in cset_contains(h, set2, ith)}

cset_difference(m, set1, set2) ==
    IF set1 = NULL \/ set2 = NULL THEN {[m |-> m, ret |-> NULL]}
    ELSE IF m.heap[set1].elemsz # m.heap[set2].elemsz THEN AssertFailed(m)
    ELSE LET diff == malloc(m.alloc)
             created == new_set(m, diff, like_set1(m, set1))
         IN {[m |-> [created EXCEPT !.heap = h], ret |-> diff]
             : h \in difference_loop(created.heap, diff, set1, set2, 0)}

cset_symmetricDifference(m, set1, set2) ==
    UNION {IF d1.m.fault # "none" THEN {d1}
           ELSE UNION {IF d2.m.fault # "none" THEN {d2}
                       ELSE {[m |-> cset_delete(cset_delete(u.m, d1.ret), d2.ret), ret |-> u.ret]
                             : u \in cset_union(d2.m, d1.ret, d2.ret)}
                       : d2 \in cset_difference(d1.m, set2, set1)}
           : d1 \in cset_difference(m, set1, set2)}

-----------------------------------------------------------------------------
(* cset_powerSet *)

RECURSIVE popcount(_)
\* __builtin_popcount
popcount(bit_vector) ==
    IF bit_vector = 0 THEN 0 ELSE (bit_vector % 2) + popcount(bit_vector \div 2)

RECURSIVE subset_adds(_, _, _, _, _, _)
\* for(i ...; i < set_size; i++) if((bit_vector >> i) & 1) cset_add(subset, nth(set, i))
subset_adds(h, subset, set, bit_vector, i, set_size) ==
    IF i >= set_size THEN h
    ELSE subset_adds(IF (bit_vector \div (2 ^ i)) % 2 = 1
                     THEN cset_add(h, subset, nth(h[set], i)).heap ELSE h,
                     subset, set, bit_vector, i + 1, set_size)

\* one iteration of the loop of cset_powerSet: create the subset of bit_vector, fill
\* it, add it to the power set
power_step(m, set, power_set, bit_vector) ==
    LET subset == malloc(m.alloc)
        created == new_set(m, subset,
                       cset_create(m.heap[set].elemsz, popcount(bit_vector), m.heap[set].cmp_fn,
                                   m.heap[set].cleanup_fn, m.heap[set].toString_fn))
        filled == subset_adds(created.heap, subset, set, bit_vector, 0, m.heap[set].n_elements)
        added == cset_add(filled, power_set, subset).heap
    IN [created EXCEPT !.heap = added]

RECURSIVE power_loop(_, _, _, _, _)
\* for(bit_vector ...; bit_vector < pset_size; bit_vector++): the iterations from
\* bit_vector up to pset_size - 1, the later half run on what the earlier half leaves
power_loop(m, set, power_set, bit_vector, pset_size) ==
    IF bit_vector >= pset_size THEN m
    ELSE IF pset_size - bit_vector = 1 THEN power_step(m, set, power_set, bit_vector)
    ELSE LET half == bit_vector + ((pset_size - bit_vector) \div 2)
         IN CHOOSE after \in {power_loop(earlier, set, power_set, half, pset_size)
                              : earlier \in {power_loop(m, set, power_set, bit_vector, half)}} : TRUE

cset_powerSet(m, set) ==
    LET set_size == m.heap[set].n_elements
        pset_size == 2 ^ set_size
        power_set == malloc(m.alloc)
        m1 == new_set(m, power_set, cset_create(sizeof_ptr, pset_size, "cset_compare",
                                                  "cset_cleanup", "cset_genericToString"))
        empty == malloc(m1.alloc)
        m2 == new_set(m1, empty, cset_create(m.heap[set].elemsz, 1, m.heap[set].cmp_fn,
                                              m.heap[set].cleanup_fn, m.heap[set].toString_fn))
        m3 == [m2 EXCEPT !.heap = cset_add(m2.heap, power_set, empty).heap]
    IN [m |-> power_loop(m3, set, power_set, 1, pset_size), ret |-> power_set]

-----------------------------------------------------------------------------
(* The client of the set operations: it creates two sets, fills them, applies one   *)
(* operation to them and keeps what it returns in `result`, and deletes the sets it *)
(* holds in any order                                                               *)

\* an operand holds at most AlgMaxLen elements
AlgMaxLen == 2
\* cset_powerSet is called on sets of at most MaxPow elements
MaxPow == 3

\* the first two sets created
Operands == {a \in Addr : a <= 2}

BothLive == \A a \in Operands : Live(alloc, a)

\* the sets the client holds
Held == Operands \cup ({result} \ {NULL})

\* the client creates an operand, sized for the elements it will add
CreateOperand ==
    \E type \in ClientTypes :
        /\ malloc(alloc) \in Operands
        /\ Create(type, AlgMaxLen)
        /\ UNCHANGED result

AddOperand ==
    \E set \in Operands, elem \in Values :
        /\ result = NULL
        /\ heap[set].n_elements < AlgMaxLen
        /\ Add(set, elem)
        /\ UNCHANGED result

\* result = fn(set1, set2), with the outcomes the call may have
Operate(fn, outcomes, set1, set2) ==
    /\ fault = "none"
    /\ BothLive
    /\ result = NULL
    /\ \E o \in outcomes :
          /\ Becomes(o.m)
          /\ ret' = o.ret
          /\ result' = o.ret
    /\ call' = Called(fn, set1, set2, 0)
    /\ UNCHANGED owned

\* the operand pairs the client passes: its first and its second set, either replaced
\* by NULL
ArgPairs == {p \in (Operands \cup {NULL}) \X (Operands \cup {NULL}) :
                /\ p[1] # NULL => \A a \in Operands : p[1] <= a
                /\ p[2] # NULL => \A a \in Operands : p[2] >= a}

Union == \E p \in ArgPairs :
             Operate("cset_union", cset_union(Machine, p[1], p[2]), p[1], p[2])

Intersect == \E p \in ArgPairs :
                 Operate("cset_intersect", cset_intersect(Machine, p[1], p[2]), p[1], p[2])

Difference == \E p \in ArgPairs :
                  Operate("cset_difference", cset_difference(Machine, p[1], p[2]), p[1], p[2])

SymmetricDifference ==
    \E p \in ArgPairs :
        Operate("cset_symmetricDifference", cset_symmetricDifference(Machine, p[1], p[2]), p[1], p[2])

PowerSet ==
    \E set \in Operands :
        /\ BothLive
        /\ heap[set].n_elements <= MaxPow
        /\ FreeAddrs(alloc) >= 2 ^ heap[set].n_elements + 1
        /\ Operate("cset_powerSet", {cset_powerSet(Machine, set)}, set, NULL)

\* cset_isSubsetOf(set1, set2) on two sets of the same element type
IsSubsetOf(set1, set2) ==
    /\ fault = "none"
    /\ Live(alloc, set1) /\ Live(alloc, set2)
    /\ heap[set1].cmp_fn = heap[set2].cmp_fn
    /\ ret' \in cset_isSubsetOf(heap, set1, set2)
    /\ call' = Called("cset_isSubsetOf", set1, set2, 0)
    /\ log' = <<>>
    /\ UNCHANGED <<heap, alloc, owned, cleaned, fault, result>>

\* the client compares two of its sets, before it deletes any
IsSubsetOfHeld ==
    \E set1, set2 \in Held :
        /\ BothLive
        /\ IsSubsetOf(set1, set2)

\* cset_delete(set)
Delete(set) ==
    /\ fault = "none"
    /\ Live(alloc, set)
    /\ Becomes(cset_delete(Machine, set))
    /\ call' = Called("cset_delete", set, NULL, 0)
    /\ ret' = NULL
    /\ UNCHANGED <<owned, result>>

\* once an operation has returned a set, the client deletes the sets it holds
DeleteHeld ==
    \E set \in Held :
        /\ result # NULL
        /\ Delete(set)

NextAlg ==
    \/ CreateOperand \/ AddOperand
    \/ Union \/ Intersect \/ Difference \/ SymmetricDifference \/ PowerSet
    \/ IsSubsetOfHeld \/ DeleteHeld

SpecAlg == Init /\ [][NextAlg]_vars

-----------------------------------------------------------------------------
(* The client of cset_union on larger sets of ints: it creates two sets, fills     *)
(* them, takes their union and asks whether each operand is a subset of the union  *)

\* an operand of the union holds at most UnionMaxLen elements
UnionMaxLen == 6

CreateInts ==
    /\ malloc(alloc) \in Operands
    /\ Create(IntType, UnionMaxLen)
    /\ UNCHANGED result

AddInts ==
    \E set \in Operands, elem \in Values :
        /\ result = NULL
        /\ heap[set].n_elements < UnionMaxLen
        /\ Add(set, elem)
        /\ UNCHANGED result

UnionInts ==
    \E p \in ArgPairs :
        /\ p[1] # NULL /\ p[2] # NULL
        /\ Operate("cset_union", cset_union(Machine, p[1], p[2]), p[1], p[2])

OperandInUnion ==
    \E set1 \in Operands :
        /\ result # NULL
        /\ IsSubsetOf(set1, result)

NextUnion == CreateInts \/ AddInts \/ UnionInts \/ OperandInUnion

SpecUnion == Init /\ [][NextUnion]_vars

-----------------------------------------------------------------------------
(* The client of cset_symmetricDifference on larger sets of ints: it creates two   *)
(* sets, fills them and takes their symmetric difference                           *)

\* an operand of the symmetric difference holds at most SymmMaxLen elements
SymmMaxLen == 7

CreateSymm ==
    /\ malloc(alloc) \in Operands
    /\ Create(IntType, SymmMaxLen)
    /\ UNCHANGED result

AddSymm ==
    \E set \in Operands, elem \in Values :
        /\ result = NULL
        /\ heap[set].n_elements < SymmMaxLen
        /\ Add(set, elem)
        /\ UNCHANGED result

SymmetricDifferenceInts ==
    \E p \in ArgPairs :
        /\ p[1] # NULL /\ p[2] # NULL
        /\ Operate("cset_symmetricDifference",
                   cset_symmetricDifference(Machine, p[1], p[2]), p[1], p[2])

NextSymm == CreateSymm \/ AddSymm \/ SymmetricDifferenceInts

SpecSymm == Init /\ [][NextSymm]_vars

-----------------------------------------------------------------------------
(* cset_toString *)

\* sprintf(str, "%d", num)
print_int(num) == ToString(num)

\* strdup of the string behind the char*
print_str(str) == "s" \o ToString(StrOf(str))

RECURSIVE cset_toString(_, _)
RECURSIVE CallToString(_, _, _)
RECURSIVE toString_elems(_, _, _)
RECURSIVE toString_range(_, _, _, _)

cset_genericToString(h, set) == cset_toString(h, set)

\* set->toString_fn(addr)
CallToString(h, fn, elem) ==
    CASE fn = "print_int" -> print_int(elem)
      [] fn = "print_str" -> print_str(elem)
      [] fn = "cset_genericToString" -> cset_genericToString(h, elem)

\* what one pass of the strcat loop of cset_toString appends for index i
toString_elem(h, set, i) ==
    CallToString(h, h[set].toString_fn, nth(h[set], i))
        \o (IF i # h[set].n_elements - 1 THEN ", " ELSE "")

\* what the passes for the indices i .. j - 1 append, one after the other
toString_range(h, set, i, j) ==
    IF i >= j THEN ""
    ELSE IF j - i = 1 THEN toString_elem(h, set, i)
    ELSE LET half == i + ((j - i) \div 2)
         IN toString_range(h, set, i, half) \o toString_range(h, set, half, j)

\* the strcat loop of cset_toString, from index i
toString_elems(h, set, i) == toString_range(h, set, i, h[set].n_elements)

\* the bytes set_str holds once the strcat calls have built str: its characters and
\* the terminator
strcat_bytes(str) == Len(str) + 1

\* the string cset_toString returns (NULL without a toString function)
cset_toString(h, set) ==
    IF h[set].toString_fn = "NULL" THEN NULL
    ELSE "{" \o toString_elems(h, set, 0) \o "}"

-----------------------------------------------------------------------------
(* The client of set_ops_test's set1: a set of ints created for seven elements. *)
(* It adds the values of vals1 in the ascending order of the array, and 2 at    *)
(* any time, removes any of them, and prints the set in between                 *)

\* set1 is created with a capacity hint of 7 and holds at most ScenarioMaxLen elements
ScenarioHint == 7
ScenarioMaxLen == 8

\* vals1 of set_ops_test, and the value added to it later
vals1 == {1, 3, 5, 6, 9, 12, 15}
ScenarioVals == vals1 \cup {2}

\* elem is above every element of the set, as each value of vals1 is when the loop adds it
AboveAll(set, elem) == \A i \in 0 .. heap[set].n_elements - 1 : elem > nth(heap[set], i)

CreateScenario ==
    /\ \A a \in Addr : alloc[a] = "unalloc"
    /\ Create(IntType, ScenarioHint)
    /\ UNCHANGED result

AddScenario ==
    \E set \in Addr, elem \in ScenarioVals :
        /\ fault = "none"
        /\ Live(alloc, set)
        /\ heap[set].n_elements < ScenarioMaxLen
        /\ elem \in vals1 => AboveAll(set, elem)
        /\ LET r == cset_add(heap, set, elem)
           IN heap' = r.heap /\ ret' = r.ret
        /\ call' = Called("cset_add", set, NULL, elem)
        /\ log' = <<>>
        /\ UNCHANGED <<alloc, owned, cleaned, fault, result>>

RemoveScenario ==
    \E set \in Addr, elem \in ScenarioVals :
        /\ fault = "none"
        /\ Live(alloc, set)
        /\ \E r \in cset_remove(heap, set, elem) : heap' = r.heap /\ ret' = r.ret
        /\ call' = Called("cset_remove", set, NULL, elem)
        /\ log' = <<>>
        /\ UNCHANGED <<alloc, owned, cleaned, fault, result>>

\* cset_toString(set).  The strcat calls build the string in char set_str[SET_STR_MAX_LEN];
\* a string that does not fit with its terminator is written past the end of the array
ToStringOf(set) ==
    /\ fault = "none"
    /\ Live(alloc, set)
    /\ ret' = cset_toString(heap, set)
    /\ fault' = IF heap[set].toString_fn # "NULL" /\ strcat_bytes(cset_toString(heap, set)) > SET_STR_MAX_LEN
                THEN "buffer_overflow" ELSE fault
    /\ call' = Called("cset_toString", set, NULL, 0)
    /\ log' = <<>>
    /\ UNCHANGED <<heap, alloc, owned, cleaned, result>>

ToStringScenario == \E set \in Addr : ToStringOf(set)

NextScenario == CreateScenario \/ AddScenario \/ RemoveScenario \/ ToStringScenario

SpecScenario == Init /\ [][NextScenario]_vars

-----------------------------------------------------------------------------
(* The client that prints a long set: it creates a set of ints, with or without a *)
(* toString function, adds ascending values to it and prints it in between       *)

\* the set holds at most PrintMaxLen elements, the values from PrintBase up
PrintMaxLen == 168
PrintBase == 1000000000

\* a set of ints that cannot be printed
SilentType == [elemsz |-> sizeof_int, cmp_fn |-> "compare_ints", cleanup_fn |-> "NULL", toString_fn |-> "NULL"]

CreatePrint ==
    \E type \in {IntType, SilentType} :
        /\ \A a \in Addr : alloc[a] = "unalloc"
        /\ Create(type, 0)
        /\ UNCHANGED result

AddPrint ==
    \E set \in Addr :
        /\ fault = "none"
        /\ Live(alloc, set)
        /\ heap[set].n_elements < PrintMaxLen
        /\ LET elem == PrintBase + heap[set].n_elements
               r == cset_add(heap, set, elem)
           IN /\ heap' = r.heap
              /\ ret' = r.ret
              /\ call' = Called("cset_add", set, NULL, elem)
        /\ log' = <<>>
        /\ UNCHANGED <<alloc, owned, cleaned, fault, result>>

ToStringPrint == \E set \in Addr : ToStringOf(set)

NextPrint == CreatePrint \/ AddPrint \/ ToStringPrint

SpecPrint == Init /\ [][NextPrint]_vars

-----------------------------------------------------------------------------
(* The client of cset_powerSet on larger sets: it fills one set of ints in       *)
(* ascending order, as set_ops_test fills set1 and set3, and takes its power set *)

\* the set holds at most PowMaxLen elements, the values 1 .. PowMaxLen
PowMaxLen == 6
PowVals == 1 .. PowMaxLen

CreatePow ==
    /\ \A a \in Addr : alloc[a] = "unalloc"
    /\ Create(IntType, PowMaxLen)
    /\ UNCHANGED result

AddPow ==
    \E set \in Addr, elem \in PowVals :
        /\ fault = "none"
        /\ Live(alloc, set)
        /\ result = NULL
        /\ heap[set].n_elements < PowMaxLen
        /\ AboveAll(set, elem)
        /\ LET r == cset_add(heap, set, elem)
           IN heap' = r.heap /\ ret' = r.ret
        /\ call' = Called("cset_add", set, NULL, elem)
        /\ log' = <<>>
        /\ UNCHANGED <<alloc, owned, cleaned, fault, result>>

\* result = cset_powerSet(set)
PowerSetPow ==
    \E set \in Addr :
        /\ fault = "none"
        /\ Live(alloc, set)
        /\ result = NULL
        /\ FreeAddrs(alloc) >= 2 ^ heap[set].n_elements + 1
        /\ LET o == cset_powerSet(Machine, set)
           IN Becomes(o.m) /\ ret' = o.ret /\ result' = o.ret
        /\ call' = Called("cset_powerSet", set, NULL, 0)
        /\ UNCHANGED owned

NextPow == CreatePow \/ AddPow \/ PowerSetPow

SpecPow == Init /\ [][NextPow]_vars

-----------------------------------------------------------------------------
(* The client of nested sets (nested_sets_test): it creates sets of ints, of     *)
(* strings and of sets, fills them, puts sets of ints and sets of sets it holds  *)
(* into sets of sets, and deletes sets it holds                                  *)

\* create_nested_set: cset_create(sizeof(CSet*), 1, cset_compare, cset_cleanup, cset_genericToString)
SetType == [elemsz |-> sizeof_ptr, cmp_fn |-> "cset_compare", cleanup_fn |-> "cset_cleanup",
            toString_fn |-> "cset_genericToString"]
NestedTypes == {IntType, StrType, SetType}
NestedHint == 1

\* the client creates at most NestedMaxSets sets, of at most NestedMaxLen elements
NestedMaxSets == 3
NestedMaxLen == 2
\* the ints and strings it adds are 0 .. NestedMaxVal
NestedMaxVal == 1

\* the addresses of the sets it creates: malloc hands out the lowest first
NestedAddrs == 1 .. NestedMaxSets

\* a set the client holds: it is live and no live set of sets stores it
\* slot i of some set of sets holds the set
Holds(holder, set) ==
    /\ Live(alloc, holder)
    /\ heap[holder].cmp_fn = "cset_compare"
    /\ \E i \in 0 .. heap[holder].n_elements - 1 : nth(heap[holder], i) = set

TopLevel(set) ==
    /\ Live(alloc, set)
    /\ \A holder \in NestedAddrs :
          (Live(alloc, holder) /\ heap[holder].cmp_fn = "cset_compare")
              => \A i \in 0 .. heap[holder].n_elements - 1 : nth(heap[holder], i) # set

CreateNested ==
    \E type \in NestedTypes :
        /\ malloc(alloc) \in NestedAddrs
        /\ Create(type, NestedHint)
        /\ UNCHANGED result

\* cset_add(set, &value) on a set of ints or strings the client holds
AddLeaf ==
    \E set \in NestedAddrs, elem \in 0 .. NestedMaxVal :
        /\ TopLevel(set)
        /\ heap[set].cmp_fn # "cset_compare"
        /\ heap[set].n_elements < NestedMaxLen
        /\ Add(set, elem)
        /\ UNCHANGED result

\* cset_add(set, &elem_set): a set of ints or of sets goes into a set of sets; the
\* client may offer a set that this set of sets already holds
AddSet ==
    \E set \in NestedAddrs, elem_set \in NestedAddrs :
        /\ fault = "none"
        /\ set # elem_set
        /\ TopLevel(set)
        /\ TopLevel(elem_set) \/ Holds(set, elem_set)
        /\ heap[set].cmp_fn = "cset_compare"
        /\ heap[elem_set].cmp_fn # "compare_strs"
        /\ heap[set].n_elements < NestedMaxLen
        /\ LET r == cset_add(heap, set, elem_set)
           IN heap' = r.heap /\ ret' = r.ret
        /\ call' = Called("cset_add", set, NULL, elem_set)
        /\ log' = <<>>
        /\ UNCHANGED <<alloc, owned, cleaned, fault, result>>

DeleteNested == \E set \in NestedAddrs : TopLevel(set) /\ Delete(set)

NextNested == CreateNested \/ AddLeaf \/ AddSet \/ DeleteNested

SpecNested == Init /\ [][NextNested]_vars

-----------------------------------------------------------------------------
(* Properties of one set under add, remove, clear *)

\* the stored elements of a live set are strictly ascending by its comparator
Ascending(h, set) ==
    \A i \in 0 .. h[set].n_elements - 2 :
        CallCmp(h, h[set].cmp_fn, nth(h[set], i), nth(h[set], i + 1)) < 0

\* elem compares equal to a stored element of the set
Stored(h, set, elem) ==
    \E i \in 0 .. h[set].n_elements - 1 : CallCmp(h, h[set].cmp_fn, elem, nth(h[set], i)) = 0

\* C1: after any sequence of cset_add and cset_remove calls the stored elements of a
\* set are strictly ascending: compare(elements[i], elements[i+1]) < 0 for all
\* adjacent indices below the count.
C1_SortedInvariant ==
    \A set \in Addr : Live(alloc, set) => Ascending(heap, set)

\* C2: a cset_add of a value that compares equal to a stored element returns false
\* and leaves the set as it was (count, element sequence, capacity).
C2_AddOfEqualRejected ==
    [][(call'.fn = "cset_add" /\ Stored(heap, call'.set1, call'.elem))
          => (ret' = FALSE /\ heap' = heap)]_vars

\* C3: immediately after cset_add(set, x), cset_contains(set, x) returns true.
C3_AddThenContains ==
    call.fn = "cset_add" => cset_contains(heap, call.set1, call.elem) = {TRUE}

\* C4: immediately after cset_remove(set, x), cset_contains(set, x) returns false.
C4_RemoveThenContains ==
    call.fn = "cset_remove" => cset_contains(heap, call.set1, call.elem) = {FALSE}

\* C7: a cset_remove that finds the value in a set created with a cleanup function
\* invokes the cleanup function exactly once, on the stored slot it removes.
C7_RemoveCleansSlot ==
    [][(call'.fn = "cset_remove" /\ ret' = TRUE /\ heap[call'.set1].cleanup_fn # "NULL")
          => \E index \in 0 .. heap[call'.set1].n_elements - 1 :
                /\ heap'[call'.set1] = remove_at(heap[call'.set1], index)
                /\ cleaned' = [cleaned EXCEPT ![nth(heap[call'.set1], index)] = @ + 1]]_vars

\* the number of live slots of the set that hold elem
Slots(h, set, elem) ==
    Cardinality({i \in 0 .. h[set].n_elements - 1 : nth(h[set], i) = elem})

\* C13: cset_clear sets the count to 0 whatever the set held, leaves the capacity and
\* the allocation of the set unchanged and, when the set has a cleanup function,
\* invokes it exactly once on each element that was live (and on nothing otherwise).
C13_ClearResetsCount ==
    [][call'.fn = "cset_clear"
          => LET set == call'.set1
             IN /\ cset_size(heap'[set]) = 0
                /\ heap'[set].capacity = heap[set].capacity
                /\ alloc' = alloc
                /\ fault' = "none"
                /\ \A a \in Addr \ {set} : heap'[a] = heap[a]
                /\ \A r \in Values :
                      cleaned'[r] = cleaned[r] + (IF heap[set].cleanup_fn = "NULL" THEN 0
                                                  ELSE Slots(heap, set, r))]_vars

\* a set of strings that held two elements has been cleared
C13_Witness ==
    /\ call.fn = "cset_clear"
    /\ heap[call.set1].cleanup_fn = "cleanup_str"
    /\ heap[call.set1].n_elements = 0
    /\ Cardinality({r \in Values : cleaned[r] = 1}) >= 2

\* C16: cset_first returns NULL iff the set is empty and otherwise slot 0; in a
\* traversal of a set that is not changed, cset_next given slot i returns slot i + 1,
\* and NULL when i is the last live slot: the slots 0 .. count-1 are returned once
\* each in ascending order, then NULL.
C16_Traversal ==
    [][/\ call'.fn = "cset_first"
            => ret' = (IF heap[call'.set1].n_elements = 0 THEN NotFound ELSE 0)
       /\ call'.fn = "cset_next"
            => /\ call'.elem \in 0 .. heap[call'.set1].n_elements - 1
               /\ ret' = (IF call'.elem = heap[call'.set1].n_elements - 1
                          THEN NotFound ELSE call'.elem + 1)]_vars

\* a traversal of a set of three or more elements has returned its last slot and
\* then NULL
C16_Witness ==
    /\ call.fn = "cset_next"
    /\ ret = NotFound
    /\ call.elem = heap[call.set1].n_elements - 1
    /\ heap[call.set1].n_elements >= 3

\* C17: cset_remove of a value that compares equal to no stored element returns
\* false and changes nothing: count, element sequence, capacity, cleanup calls.
C17_RemoveAbsent ==
    [][(call'.fn = "cset_remove" /\ ~Stored(heap, call'.set1, call'.elem))
          => (ret' = FALSE /\ heap' = heap /\ cleaned' = cleaned /\ alloc' = alloc)]_vars

\* a value that is not stored was removed from a set that holds other values
C17_Witness ==
    /\ call.fn = "cset_remove"
    /\ ret = FALSE
    /\ heap[call.set1].n_elements >= 2
    /\ ~Stored(heap, call.set1, call.elem)

\* the parts of C19 that do not depend on when the capacity grows: a cset_add that
\* returns false changes nothing; one that returns true leaves the old slots in their
\* order around the new element, within the capacity; no call lowers a capacity
GrowthFrame ==
    /\ (call'.fn = "cset_add" /\ ret' = FALSE) => heap' = heap
    /\ (call'.fn = "cset_add" /\ ret' = TRUE)
          => LET old == heap[call'.set1]
                 new == heap'[call'.set1]
             IN /\ \E index \in 0 .. old.n_elements : new.elements = insert(old, call'.elem, index).elements
                /\ new.n_elements <= new.capacity
    /\ \A set \in Addr :
          (Live(alloc, set) /\ Live(alloc', set)) => heap'[set].capacity >= heap[set].capacity

\* C19 as stated: the capacity doubles exactly when the insertion would make the
\* count >= capacity - 1, that is when count + 1 >= capacity - 1 before it.
C19_GrowthAsStated ==
    [][/\ GrowthFrame
       /\ (call'.fn = "cset_add" /\ ret' = TRUE)
            => LET old == heap[call'.set1]
               IN heap'[call'.set1].capacity =
                     (IF old.n_elements + 1 >= old.capacity - 1
                      THEN old.capacity * RESIZE_FACTOR ELSE old.capacity)]_vars

\* C19, amended: the capacity doubles exactly when the count before the insertion
\* is >= capacity - 1 (the insertion would make the count >= capacity).
C19_Growth ==
    [][/\ GrowthFrame
       /\ (call'.fn = "cset_add" /\ ret' = TRUE)
            => LET old == heap[call'.set1]
               IN heap'[call'.set1].capacity =
                     (IF old.n_elements >= old.capacity - 1
                      THEN old.capacity * RESIZE_FACTOR ELSE old.capacity)]_vars

\* an add has taken a set to four elements in a capacity of eight, doubled twice
\* from a hint of 2 or three times from a hint of 1
C19_Witness ==
    /\ call.fn = "cset_add"
    /\ ret = TRUE
    /\ heap[call.set1].n_elements = 4
    /\ heap[call.set1].capacity = 8

-----------------------------------------------------------------------------
(* Properties of the set operations *)

SetOperations == {"cset_union", "cset_intersect", "cset_difference", "cset_symmetricDifference"}

\* C5: for two non-NULL sets of the same element size, whatever their sizes,
\* cset_intersect(a, b) returns a new set that holds exactly the values stored in
\* both a and b.
C5_IntersectIsCommonValues ==
    (call.fn = "cset_intersect" /\ call.set1 # NULL /\ call.set2 # NULL /\ fault = "none")
        => /\ Live(alloc, ret)
           /\ ret \notin {call.set1, call.set2}
           /\ \A v \in Values :
                 Stored(heap, ret, v) <=> (Stored(heap, call.set1, v) /\ Stored(heap, call.set2, v))

\* C6: with u = cset_union(a, b) for sets a and b built by cset_add,
\* cset_isSubsetOf(a, u) and cset_isSubsetOf(b, u) return true.
C6_OperandsSubsetOfUnion ==
    (call.fn = "cset_isSubsetOf" /\ call.set1 \in Operands /\ call.set2 = result)
        => ret = TRUE

\* C8: union, intersect, difference and symmetricDifference called with a NULL
\* operand return NULL, and the process does not dereference a NULL pointer.
C8_NullOperandGivesNull ==
    (call.fn \in SetOperations /\ (call.set1 = NULL \/ call.set2 = NULL))
        => (ret = NULL /\ fault = "none")

\* C9: the set operations and cset_powerSet return a new set, never one of their
\* inputs, and whatever the order in which operands and result are deleted, cleanup
\* is invoked at most once on each element resource.
C9_SingleOwner ==
    /\ (call.fn \in SetOperations \cup {"cset_powerSet"} /\ ret # NULL /\ fault = "none")
          => (Live(alloc, ret) /\ ret \notin {call.set1, call.set2})
    /\ \A str \in Values : cleaned[str] <= 1

\* C12: for two non-NULL sets a and b of the same element size, cset_difference(a, b)
\* returns a new set that holds exactly the values stored in a and not stored in b,
\* in ascending order.
C12_DifferenceIsRest ==
    (call.fn = "cset_difference" /\ call.set1 # NULL /\ call.set2 # NULL /\ fault = "none")
        => /\ Live(alloc, ret)
           /\ ret \notin {call.set1, call.set2}
           /\ \A v \in Values :
                 Stored(heap, ret, v) <=> (Stored(heap, call.set1, v) /\ ~Stored(heap, call.set2, v))
           /\ Ascending(heap, ret)

ReadOnlyOperations == SetOperations \cup {"cset_isSubsetOf", "cset_powerSet"}

\* C14: cset_isSubsetOf, cset_union, cset_intersect, cset_difference,
\* cset_symmetricDifference and cset_powerSet leave their operands as they were: every
\* set that was live before the call has the same element sequence, count and
\* capacity after it, and is still allocated.
C14_OperandsUnchanged ==
    [][call'.fn \in ReadOnlyOperations
          => \A set \in Addr :
                Live(alloc, set) => /\ Live(alloc', set)
                                    /\ heap'[set].elements = heap[set].elements
                                    /\ heap'[set].n_elements = heap[set].n_elements
                                    /\ heap'[set].capacity = heap[set].capacity]_vars

\* a union of two non-empty sets has been taken, and it holds more than its first operand
C14_Witness ==
    /\ call.fn = "cset_union"
    /\ fault = "none"
    /\ ret # NULL
    /\ heap[call.set1].n_elements > 0
    /\ heap[call.set2].n_elements > 0
    /\ heap[ret].n_elements > heap[call.set1].n_elements

\* C18: the set cset_powerSet returns is strictly ascending under cset_compare, and
\* cset_contains finds each subset it holds, for every size of the input.
C18_PowerSetSorted ==
    (call.fn = "cset_powerSet" /\ fault = "none")
        => /\ Ascending(heap, ret)
           /\ \A i \in 0 .. heap[ret].n_elements - 1 :
                 cset_contains(heap, ret, nth(heap[ret], i)) = {TRUE}

\* C10: cset_powerSet(S) holds 2^n sets for S of size n, and each of them is a
\* subset of S by cset_isSubsetOf.
C10_PowerSetSizeAndSubsets ==
    (call.fn = "cset_powerSet" /\ fault = "none")
        => /\ cset_size(heap[ret]) = 2 ^ cset_size(heap[call.set1])
           /\ \A i \in 0 .. heap[ret].n_elements - 1 :
                 cset_isSubsetOf(heap, nth(heap[ret], i), call.set1) = {TRUE}

-----------------------------------------------------------------------------
(* The scenario of set_ops_test's set1 *)

\* the elements of the one set the scenario client holds
Set1Elements == heap[1].elements

\* C11: from the int set built by adding 1, 3, 5, 6, 9, 12, 15, cset_add(2) gives the
\* element sequence 1,2,3,5,6,9,12,15; from that, cset_remove(9) gives 1,2,3,5,6,12,15;
\* and cset_toString of that set renders "{1, 2, 3, 5, 6, 12, 15}".
C11_Scenario ==
    [][/\ (Set1Elements = <<1, 3, 5, 6, 9, 12, 15>> /\ call'.fn = "cset_add" /\ call'.elem = 2)
            => Set1Elements' = <<1, 2, 3, 5, 6, 9, 12, 15>>
       /\ (Set1Elements = <<1, 2, 3, 5, 6, 9, 12, 15>> /\ call'.fn = "cset_remove" /\ call'.elem = 9)
            => Set1Elements' = <<1, 2, 3, 5, 6, 12, 15>>
       /\ (Set1Elements = <<1, 2, 3, 5, 6, 12, 15>> /\ call'.fn = "cset_toString")
            => ret' = "{1, 2, 3, 5, 6, 12, 15}"]_vars

-----------------------------------------------------------------------------
(* Properties of nested sets *)

RECURSIVE NestedSets(_, _)
\* the sets a set of sets stores, at every depth
NestedSets(h, set) ==
    IF h[set].cleanup_fn # "cset_cleanup" THEN {}
    ELSE UNION {{nth(h[set], i)} \cup NestedSets(h, nth(h[set], i))
                : i \in 0 .. h[set].n_elements - 1}

\* the entry of the log that ends the cleanup of slot i of the set
CleanupEvent(h, set, i) ==
    IF h[set].cleanup_fn = "cset_cleanup" THEN Event("free", nth(h[set], i))
    ELSE Event("cleanup_str", nth(h[set], i))

Count(lg, event) == Cardinality({k \in 1 .. Len(lg) : lg[k] = event})
Pos(lg, event) == CHOOSE k \in 1 .. Len(lg) : lg[k] = event

\* C15: cset_delete of a set with a cleanup function invokes it once on each live
\* slot, in ascending index order, and releases the set record after that; with
\* cset_cleanup every set stored at any depth is deleted exactly once, its own
\* elements before it, and nothing else is cleaned up or released.
C15_DeleteOrder ==
    [][call'.fn = "cset_delete"
          => LET set == call'.set1
                 all == {set} \cup NestedSets(heap, set)
                 cleaning == {s \in all : heap[s].cleanup_fn # "NULL"}
             IN /\ fault' = "none"
                /\ \A s \in all : alloc'[s] = "freed" /\ Count(log', Event("free", s)) = 1
                /\ \A s \in Addr \ all : alloc'[s] = alloc[s] /\ heap'[s] = heap[s]
                /\ \A s \in cleaning :
                      \A i \in 0 .. heap[s].n_elements - 1 :
                          /\ Count(log', CleanupEvent(heap, s, i)) = 1
                          /\ Pos(log', CleanupEvent(heap, s, i)) < Pos(log', Event("free", s))
                          /\ \A j \in i + 1 .. heap[s].n_elements - 1 :
                                Pos(log', CleanupEvent(heap, s, i)) < Pos(log', CleanupEvent(heap, s, j))
                /\ \A k \in 1 .. Len(log') :
                      \/ log'[k].fn = "free" /\ log'[k].ptr \in all
                      \/ \E s \in cleaning :
                            \E i \in 0 .. heap[s].n_elements - 1 :
                                log'[k] = CleanupEvent(heap, s, i)]_vars

Sign(x) == IF x > 0 THEN 1 ELSE IF x < 0 THEN -1 ELSE 0

\* what the inner compare function of set1 gives on slot i of the two sets
InnerCompare(h, set1, set2, i) == CallCmp(h, h[set1].cmp_fn, nth(h[set1], i), nth(h[set2], i))

\* the indices at which it is not zero
Differing(h, set1, set2) ==
    {i \in 0 .. h[set1].n_elements - 1 : InnerCompare(h, set1, set2, i) # 0}

\* one comparator can compare the elements of the two sets
Comparable(h, set1, set2) ==
    h[set1].elemsz # h[set2].elemsz \/ h[set1].cmp_fn = h[set2].cmp_fn

\* C20: cset_compare gives 0 on one instance; on two it has the sign of the difference
\* of the counts, else of the element sizes, else it is the inner compare at the
\* first index where that is not zero, and 0 if there is none; on sets with one
\* inner comparator the sign of compare(a, b) is the opposite of that of compare(b, a).
C20_CompareOrder ==
    \A set1 \in NestedAddrs, set2 \in NestedAddrs :
        (Live(alloc, set1) /\ Live(alloc, set2) /\ Comparable(heap, set1, set2))
            => LET c == cset_compare(heap, set1, set2)
                   differing == Differing(heap, set1, set2)
               IN /\ set1 = set2 => c = 0
                  /\ set1 # set2 =>
                        IF heap[set1].n_elements # heap[set2].n_elements
                        THEN Sign(c) = Sign(heap[set1].n_elements - heap[set2].n_elements)
                        ELSE IF heap[set1].elemsz # heap[set2].elemsz
                        THEN Sign(c) = Sign(heap[set1].elemsz - heap[set2].elemsz)
                        ELSE IF differing = {} THEN c = 0
                        ELSE c = InnerCompare(heap, set1, set2,
                                              CHOOSE i \in differing : \A j \in differing : i <= j)
                  /\ heap[set1].cmp_fn = heap[set2].cmp_fn
                        => Sign(c) = -Sign(cset_compare(heap, set2, set1))

\* two sets of sets of the same count differ in a stored set, and one of the two is
\* stored in a set
C20_Witness ==
    \E set1 \in NestedAddrs, set2 \in NestedAddrs :
        /\ Live(alloc, set1) /\ Live(alloc, set2)
        /\ set1 # set2
        /\ heap[set1].cmp_fn = "cset_compare" /\ heap[set2].cmp_fn = "cset_compare"
        /\ heap[set1].n_elements = heap[set2].n_elements
        /\ cset_compare(heap, set1, set2) # 0

-----------------------------------------------------------------------------
(* Properties of the shifts in cset_add and cset_remove *)

\* seq with elem put in before its slot index (0-based)
WithSlot(seq, index, elem) == SubSeq(seq, 1, index) \o <<elem>> \o SubSeq(seq, index + 1, Len(seq))

\* seq without its slot index (0-based)
WithoutSlot(seq, index) == SubSeq(seq, 1, index) \o SubSeq(seq, index + 2, Len(seq))

\* C21: a cset_add that returns true increments the count by 1 and keeps every
\* element stored before, in the same relative order: the new element sequence is
\* the old one with the new value put in at one index, also when the array is
\* reallocated.
C21_AddInsertsOne ==
    [][(call'.fn = "cset_add" /\ ret' = TRUE)
          => LET old == heap[call'.set1]
                 new == heap'[call'.set1]
             IN /\ new.n_elements = old.n_elements + 1
                /\ Len(new.elements) = new.n_elements
                /\ \E index \in 0 .. old.n_elements :
                      new.elements = WithSlot(old.elements, index, call'.elem)]_vars

\* a cset_add into the middle of a set of three has reallocated its array
C21_Witness ==
    /\ call.fn = "cset_add"
    /\ ret = TRUE
    /\ heap[call.set1].n_elements = 4
    /\ heap[call.set1].capacity = 8
    /\ \E i \in 1 .. 2 : nth(heap[call.set1], i) = call.elem

\* C22: a cset_remove that returns true decrements the count by 1 and removes the
\* slot the search found: the new element sequence is the old one without that one
\* slot, the other elements in the same relative order.
C22_RemoveDeletesOne ==
    [][(call'.fn = "cset_remove" /\ ret' = TRUE)
          => LET old == heap[call'.set1]
                 new == heap'[call'.set1]
             IN /\ new.n_elements = old.n_elements - 1
                /\ \E found \in bsearch(heap, call'.elem, old.elements, old.n_elements, old.cmp_fn) :
                      /\ found # NotFound
                      /\ new.elements = WithoutSlot(old.elements, found)]_vars

\* a cset_remove has taken a value from between a smaller and a larger one
C22_Witness ==
    /\ call.fn = "cset_remove"
    /\ ret = TRUE
    /\ heap[call.set1].cmp_fn = "compare_ints"
    /\ heap[call.set1].n_elements >= 2
    /\ \E i \in 0 .. heap[call.set1].n_elements - 2 :
          nth(heap[call.set1], i) < call.elem /\ call.elem < nth(heap[call.set1], i + 1)

\* C24: in every state reached by create, add, remove and clear the count of a set is
\* at most its capacity - 1, and the shifts in cset_add and cset_remove read and
\* write only slots below the capacity.
C24_CountBelowCapacity ==
    [][/\ \A set \in Addr : Live(alloc', set) => heap'[set].n_elements <= heap'[set].capacity - 1
       /\ (call'.fn = "cset_add" /\ ret' = TRUE)
             => \A slot \in insert_slots(check_resize(heap[call'.set1]),
                                         add_index(heap, heap[call'.set1], call'.elem)) :
                   slot < heap'[call'.set1].capacity
       /\ (call'.fn = "cset_remove" /\ ret' = TRUE)
             => \A found \in bsearch(heap, call'.elem, heap[call'.set1].elements,
                                     heap[call'.set1].n_elements, heap[call'.set1].cmp_fn) :
                   \A slot \in remove_slots(heap[call'.set1], found) :
                       slot < heap[call'.set1].capacity]_vars

\* a cset_remove on a set whose count was capacity - 1 has read the last slot of the array
C24_Witness ==
    /\ call.fn = "cset_remove"
    /\ ret = TRUE
    /\ heap[call.set1].n_elements >= 1
    /\ heap[call.set1].n_elements + 1 = heap[call.set1].capacity - 1

-----------------------------------------------------------------------------
(* Properties of cset_symmetricDifference *)

\* C23: for non-NULL sets a and b of one element type, cset_symmetricDifference(a, b)
\* has the element sequence of cset_union(cset_difference(a, b), cset_difference(b, a))
\* and holds exactly the values stored in exactly one of a and b.
C23_SymmetricDifferenceIsUnionOfDifferences ==
    (call.fn = "cset_symmetricDifference" /\ call.set1 # NULL /\ call.set2 # NULL /\ fault = "none")
        => /\ Live(alloc, ret)
           /\ \E d1 \in cset_difference(Machine, call.set1, call.set2) :
                 \E d2 \in cset_difference(d1.m, call.set2, call.set1) :
                     \E u \in cset_union(d2.m, d1.ret, d2.ret) :
                         u.m.heap[u.ret].elements = heap[ret].elements
           /\ \A v \in Values :
                 Stored(heap, ret, v) <=> (Stored(heap, call.set1, v) # Stored(heap, call.set2, v))

\* C25: when cset_symmetricDifference returns a set whose operands were created with a
\* cleanup function, cleanup has been invoked during the call on no element that the
\* returned set holds: deleting the two difference sets cleans up nothing of the result.
C25_ResultNotCleaned ==
    (call.fn = "cset_symmetricDifference" /\ ret # NULL /\ fault = "none"
        /\ heap[ret].cleanup_fn # "NULL")
        => \A i \in 0 .. heap[ret].n_elements - 1 :
              Count(log, CleanupEvent(heap, ret, i)) = 0

-----------------------------------------------------------------------------
(* Properties of cset_toString *)

\* C26: cset_toString returns NULL for a set without a toString function; for every
\* other set the string "{e1, e2, ..., en}" fits with its terminator into the
\* SET_STR_MAX_LEN bytes of the working array, so nothing is written past its end.
C26_StringFitsBuffer ==
    call.fn = "cset_toString"
        => IF heap[call.set1].toString_fn = "NULL"
           THEN ret = NULL /\ fault = "none"
           ELSE /\ ret = "{" \o toString_elems(heap, call.set1, 0) \o "}"
                /\ strcat_bytes(ret) <= SET_STR_MAX_LEN
                /\ fault = "none"

====
